---------------------------- MODULE Spec2Model ----------------------------
(***************************************************************************)
(* The constraint-model builder of scheduler_ip.ipynb: the notebook's      *)
(* cells, run top to bottom, turn the TA roster into an integer program    *)
(* (0/1 variables, linear constraints, a maximised objective), hand it to  *)
(* the solver and decode the solved values into assignment records.        *)
(*                                                                         *)
(* Conventions.  Block ids, TA indices and recitation ids are 0-based as   *)
(* in the notebook.  A bitset (numpy bool array) is the set of the ids it  *)
(* marks.  Block hours are whole hours; recitation times, which the        *)
(* notebook keeps as hour + minute/60, are kept in minutes, and a block    *)
(* hour is multiplied by 60 where the two are compared.                    *)
(***************************************************************************)
EXTENDS Integers, Sequences, FiniteSets, TLC

(***************************************************************************)
(* Model parameters (cell 882e8865).                                       *)
(***************************************************************************)
max_oh_shift_length == 3
max_oh_shifts_per_ta == 3
max_recitations_per_ta == 2
recitation_time_commitment == 2
grading_time_commitment == 2
oh_preferred_weight == 4
\* recitation_pref_shape = 1.4 and recitation_returning_ta_multiplier = 1.8,
\* kept as tenths
recitation_pref_shape_tenths == 14
recitation_returning_ta_multiplier_tenths == 18
recitation_one_way_buddy_weight == 5
alpha == 5
\* the hour from which a shift start counts as late (cell 362cc991)
late_shift_hour == 21
\* recitation willingness from which a TA may lead max_recitations_per_ta
high_pref_threshold == 4

weekdays == {"Mon", "Tue", "Wed", "Thu", "Fri"}
weekend == {"Sat", "Sun"}

(***************************************************************************)
(* Bounds of the explored inputs.                                          *)
(***************************************************************************)
\* largest roster
MaxTAs == 2
\* largest configured global minimum of TA-hours
MaxMinTotal == 1

Range0(n) == 0 .. (n - 1)
Max2(a, b) == IF a >= b THEN a ELSE b
Min2(a, b) == IF a <= b THEN a ELSE b

(***************************************************************************)
(* namedtuples Block, Recitation, Shift.                                   *)
(***************************************************************************)
Block(day, start, end) == [day |-> day, start |-> start, end |-> end]
Recitation(day, start, end) == [day |-> day, start |-> start, end |-> end]

(***************************************************************************)
(* Solver variables.  solver.IntVar(0, 1, name): the record stands for the *)
(* name ta_<ta>_block_<id>, ta_<ta>_shift_<id>, ta_<ta>_recitation_<id>,   *)
(* buddy_<ta>_<aux>_<id>.                                                  *)
(***************************************************************************)
IntVar(kind, ta, id, aux) == [kind |-> kind, ta |-> ta, id |-> id, aux |-> aux]
BlockVar(ta, block_id) == IntVar("block", ta, block_id, 0)
ShiftVar(ta, k) == IntVar("shift", ta, k, 0)
RecitationVar(ta, recitation_id) == IntVar("recitation", ta, recitation_id, 0)
BuddyVar(requester_id, requested_id, recitation_id) ==
  IntVar("buddy", requester_id, recitation_id, requested_id)

(***************************************************************************)
(* Linear expressions and constraints of the solver's natural API.  An     *)
(* expression is its terms (coefficient, variable), in the order written,  *)
(* and a constant offset.  expr <= arg, expr >= arg, expr == arg build a   *)
(* one-sided (or equality) LinearConstraint; with an expression on the     *)
(* right the constraint is on (expr - arg) against 0.                      *)
(***************************************************************************)
Term(c, v) == [c |-> c, v |-> v]
VarExpr(v) == [terms |-> <<Term(1, v)>>, offset |-> 0]
ConstExpr(n) == [terms |-> <<>>, offset |-> n]
Plus(e1, e2) == [terms |-> e1.terms \o e2.terms, offset |-> e1.offset + e2.offset]
Times(k, e) ==
  [terms |-> [i \in DOMAIN e.terms |-> Term(k * e.terms[i].c, e.terms[i].v)],
   offset |-> k * e.offset]
Minus(e1, e2) == Plus(e1, Times(-1, e2))
\* solver.Sum over a sequence of variables
SumVars(vs) == [terms |-> [i \in DOMAIN vs |-> Term(1, vs[i])], offset |-> 0]

LinearConstraint(expr, sense, bound) ==
  [terms |-> expr.terms, sense |-> sense, rhs |-> bound - expr.offset]
LeNum(e, n) == LinearConstraint(e, "le", n)
GeNum(e, n) == LinearConstraint(e, "ge", n)
EqNum(e, n) == LinearConstraint(e, "eq", n)
LeExpr(e1, e2) == LinearConstraint(Minus(e1, e2), "le", 0)
GeExpr(e1, e2) == LinearConstraint(Minus(e1, e2), "ge", 0)

\* bool(x) of a LinearConstraint object: the class defines neither __bool__
\* nor __len__, so every instance is true.
Truthy(constraint) == TRUE
\* Python's chained comparison  a <= e <= b  is  (a <= e) and (e <= b);
\* `and` yields its second operand when the first is true.
PyAnd(first, second) == IF Truthy(first) THEN second ELSE first

(***************************************************************************)
(* State.  The inputs (left alone by every cell), the structures the cells *)
(* build, and the position in the notebook.                                *)
(***************************************************************************)
VARIABLES
  oh_demand_bounds,       \* coverage windows, in dict order
  recitations,            \* recitation slots, in list order
  availability_df,        \* the roster: TA index -> row
  buddies,                \* directed (requester index, requested index) pairs
  min_total_ta_hours,     \* configured global minimum
  one_shift_per_day,      \* configured policy flag
  oh_block_id_to_block,   \* block id -> Block
  oh_demand_by_block_id,  \* block id -> <<lower, upper>>
  solver_vars,            \* variables of the solver, in creation order
  solver_constraints,     \* constraints handed to solver.Add
  oh_blocks_by_ta,        \* TA index -> block ids with a variable (row_blocks keys)
  oh_shifts_by_ta,        \* TA index -> sequence of Shift
  recitation_assignments_by_ta, \* TA index -> recitation ids with a variable
  buddy_vars,             \* buddy variables created
  oh_utility_obj,         \* office-hour utility expression
  recitation_utility_obj_clauses, \* recitation utility clauses (an expression)
  total_obj,              \* objective expression
  status,                 \* result of solver.Solve()
  solution,               \* variable -> solved value
  oh_solution,            \* decoded (TA, block id) records
  recitation_solution,    \* decoded (recitation id, TA) records
  pc                      \* the next cell to run, or the way the run ended

inputs == <<oh_demand_bounds, recitations, availability_df, buddies,
            min_total_ta_hours, one_shift_per_day>>
index == <<oh_block_id_to_block, oh_demand_by_block_id>>
built == <<solver_vars, solver_constraints, oh_blocks_by_ta, oh_shifts_by_ta,
           recitation_assignments_by_ta, buddy_vars, oh_utility_obj,
           recitation_utility_obj_clauses, total_obj>>
solved == <<status, solution>>
decoded == <<oh_solution, recitation_solution>>
vars == <<inputs, index, built, solved, decoded, pc>>

NumTAs == Cardinality(DOMAIN availability_df)
TAs == DOMAIN availability_df

(***************************************************************************)
(* Time-block index (cell d56f6039): one Block per covered hour, ids in    *)
(* the order the windows are listed.                                       *)
(***************************************************************************)
WindowBlocks(w) == [i \in 1 .. (w.end - w.start + 1) |->
                      Block(w.day, w.start + i - 1, w.start + i)]
WindowDemand(w) == [i \in 1 .. (w.end - w.start + 1) |-> w.demand]

RECURSIVE BlockSeq(_)
BlockSeq(windows) ==
  IF windows = <<>> THEN <<>>
  ELSE WindowBlocks(Head(windows)) \o BlockSeq(Tail(windows))

RECURSIVE DemandSeq(_)
DemandSeq(windows) ==
  IF windows = <<>> THEN <<>>
  ELSE WindowDemand(Head(windows)) \o DemandSeq(Tail(windows))

\* a sequence re-indexed from 0
ZeroBased(s) == [i \in Range0(Len(s)) |-> s[i + 1]]

TimeBlockIndex ==
  /\ pc = "index"
  /\ oh_block_id_to_block' = ZeroBased(BlockSeq(oh_demand_bounds))
  /\ oh_demand_by_block_id' = ZeroBased(DemandSeq(oh_demand_bounds))
  /\ pc' = "validate"
  /\ UNCHANGED <<inputs, built, solved, decoded>>

(***************************************************************************)
(* Input validation (cell 15744373): a TA unwilling to lead recitations    *)
(* has no recitation availability, or the assert stops the run.            *)
(***************************************************************************)
NoRecitationAssertHolds ==
  \A ta \in TAs :
    availability_df[ta].recitation_pref = 0
      => availability_df[ta].recitation_available = {}

\* cell c6dfe08f: the number of blocks a row marks preferred and not
\* available; the notebook displays the counts and goes on
PreferredNotAvailable(row) == Cardinality(row.oh_pref_available \ row.oh_available)

Validate ==
  /\ pc = "validate"
  /\ pc' = IF NoRecitationAssertHolds THEN "oh" ELSE "AssertionError"
  /\ UNCHANGED <<inputs, index, built, solved, decoded>>

(***************************************************************************)
(* Office-hour variables and per-TA shift constraints (cell 362cc991).     *)
(***************************************************************************)
Shift(var, day, start, end, first, window) ==
  \* first, window: the block ids first .. first + window the shift was
  \* generated from (the loop variables block_idx and window)
  [var |-> var, day |-> day, start |-> start, end |-> end,
   first |-> first, window |-> window]

ShiftBlocks(shift) == shift.first .. (shift.first + shift.window)

\* RowBlocks without the availability test
RowBlocksEveryBlock(availability) == DOMAIN oh_block_id_to_block

\* np.where(availability == 1)[0]
RowBlocks(availability) == {block_id \in DOMAIN oh_block_id_to_block :
                              block_id \in availability}

\* the (window, block_idx) pairs in loop order
WindowPairs(size, window) ==
  [i \in 1 .. Max2(size - window, 0) |-> [first |-> i - 1, window |-> window]]

RECURSIVE LoopPairs(_, _)
LoopPairs(size, window) ==
  IF window >= max_oh_shift_length THEN <<>>
  ELSE WindowPairs(size, window) \o LoopPairs(size, window + 1)

\* ShiftGenerated with the late rule dropping one-block shifts only
ShiftGeneratedSingleOnly(availability, p) ==
  LET start_block == oh_block_id_to_block[p.first]
      end_block == oh_block_id_to_block[p.first + p.window]
  IN  /\ ~(start_block.start >= late_shift_hour /\ p.window < 1)
      /\ start_block.day = end_block.day
      /\ \A b \in p.first .. (p.first + p.window) : b \in availability

\* the loop body's tests for one (window, block_idx)
ShiftGenerated(availability, p) ==
  LET start_block == oh_block_id_to_block[p.first]
      end_block == oh_block_id_to_block[p.first + p.window]
  IN  /\ ~(start_block.start >= late_shift_hour /\ p.window < 2)
      /\ start_block.day = end_block.day
      /\ \A b \in p.first .. (p.first + p.window) : b \in availability

RowShifts(ta_idx, availability) ==
  LET size == Cardinality(DOMAIN oh_block_id_to_block)
      kept == SelectSeq(LoopPairs(size, 0),
                        LAMBDA p : ShiftGenerated(availability, p))
  IN  [k \in DOMAIN kept |->
         Shift(ShiftVar(ta_idx, k - 1),
               oh_block_id_to_block[kept[k].first].day,
               oh_block_id_to_block[kept[k].first].start,
               oh_block_id_to_block[kept[k].first + kept[k].window].end,
               kept[k].first, kept[k].window)]

ShiftVarsOf(shifts) == [k \in DOMAIN shifts |-> shifts[k].var]
SeqRange(s) == {s[i] : i \in DOMAIN s}

\* if the shift is selected, all blocks in the shift are selected
ShiftImpliesBlocks(ta_idx, row_shifts) ==
  {GeExpr(VarExpr(BlockVar(ta_idx, block_id)), VarExpr(row_shifts[k].var)) :
     <<k, block_id>> \in {q \in (DOMAIN row_shifts) \X (DOMAIN oh_block_id_to_block) :
                            q[2] \in ShiftBlocks(row_shifts[q[1]])}}

\* block_var_to_shift_vars[block_var]
CoveringShifts(row_shifts, block_id) ==
  SelectSeq(row_shifts, LAMBDA s : block_id \in ShiftBlocks(s))

\* if a block is selected, then a shift it is in is selected
BlockImpliesShift(ta_idx, row_blocks, row_shifts) ==
  {GeExpr(SumVars(ShiftVarsOf(CoveringShifts(row_shifts, block_id))),
          VarExpr(BlockVar(ta_idx, block_id))) :
     block_id \in {b \in row_blocks : CoveringShifts(row_shifts, b) # <<>>}}

\* OrphanBlocks with the orphan constraints left out
OrphanBlocksFree(ta_idx, row_blocks, row_shifts) == {}

\* orphan blocks (blocks outside of a valid shift) cannot be assigned
OrphanBlocks(ta_idx, row_blocks, row_shifts) ==
  {EqNum(VarExpr(BlockVar(ta_idx, block_id)), 0) :
     block_id \in {b \in row_blocks : CoveringShifts(row_shifts, b) = <<>>}}

\* OneShiftPerDay with the per-day constraints left out
OneShiftPerDayOff(row_shifts) == {}

\* at most one shift per day
OneShiftPerDay(row_shifts) ==
  {LeNum(SumVars(ShiftVarsOf(SelectSeq(row_shifts, LAMBDA s : s.day = day))), 1) :
     day \in {row_shifts[k].day : k \in DOMAIN row_shifts}}

\* WeeklyShiftCap off by one
WeeklyShiftCapPlusOne(row_shifts) ==
  [terms |-> [k \in DOMAIN row_shifts |-> [c |-> 1, v |-> row_shifts[k].var]],
   sense |-> "le", rhs |-> max_oh_shifts_per_ta + 1]

\* no more than k shifts per week
WeeklyShiftCap(row_shifts) ==
  LeNum(SumVars(ShiftVarsOf(row_shifts)), max_oh_shifts_per_ta)

\* no more than one shift per week of maximum length
LongShiftCap(row_shifts) ==
  LeNum(SumVars(ShiftVarsOf(SelectSeq(row_shifts,
          LAMBDA s : s.end - s.start = max_oh_shift_length))), 1)

\* nobody has more than one weekend shift
WeekendShiftCap(row_shifts) ==
  LeNum(SumVars(ShiftVarsOf(SelectSeq(row_shifts,
          LAMBDA s : s.day \in weekend))), 1)

\* everything one iteration of the per-TA loop adds
\* the constraints an iteration adds before it reaches the one_shift_per_day
\* test
LinkingConstraints(ta_idx) ==
  LET row_blocks == RowBlocks(availability_df[ta_idx].oh_available)
      row_shifts == RowShifts(ta_idx, availability_df[ta_idx].oh_available)
  IN  ShiftImpliesBlocks(ta_idx, row_shifts)
        \cup BlockImpliesShift(ta_idx, row_blocks, row_shifts)
        \cup OrphanBlocks(ta_idx, row_blocks, row_shifts)

TAConstraints(ta_idx) ==
  LET row_shifts == RowShifts(ta_idx, availability_df[ta_idx].oh_available)
  IN  LinkingConstraints(ta_idx)
        \cup OneShiftPerDay(row_shifts)
        \cup {WeeklyShiftCap(row_shifts), LongShiftCap(row_shifts),
              WeekendShiftCap(row_shifts)}

\* a set of ids as the ascending sequence of them
RECURSIVE Ascending(_)
Ascending(S) ==
  IF S = {} THEN <<>>
  ELSE LET m == CHOOSE x \in S : \A y \in S : x <= y
       IN  <<m>> \o Ascending(S \ {m})

TAVars(ta_idx) ==
  LET ids == Ascending(RowBlocks(availability_df[ta_idx].oh_available))
  IN  [i \in DOMAIN ids |-> BlockVar(ta_idx, ids[i])]
        \o ShiftVarsOf(RowShifts(ta_idx, availability_df[ta_idx].oh_available))

RECURSIVE ConcatOver(_, _, _)
\* F(0) \o F(1) \o ... \o F(n - 1)
ConcatOver(F(_), i, n) == IF i >= n THEN <<>> ELSE F(i) \o ConcatOver(F, i + 1, n)

OfficeHourVariables ==
  /\ pc = "oh"
  /\ IF NumTAs > 0 /\ ~one_shift_per_day
       THEN \* the first iteration creates its variables and linking
            \* constraints and then raises NotImplementedError, before
            \* anything is appended to oh_blocks_by_ta and oh_shifts_by_ta
            /\ solver_vars' = solver_vars \o TAVars(0)
            /\ solver_constraints' = solver_constraints \cup LinkingConstraints(0)
            /\ pc' = "NotImplementedError"
            /\ UNCHANGED <<oh_blocks_by_ta, oh_shifts_by_ta,
                           recitation_assignments_by_ta, buddy_vars,
                           oh_utility_obj, recitation_utility_obj_clauses,
                           total_obj>>
       ELSE /\ oh_blocks_by_ta' =
                 [ta \in TAs |-> RowBlocks(availability_df[ta].oh_available)]
            /\ oh_shifts_by_ta' =
                 [ta \in TAs |-> RowShifts(ta, availability_df[ta].oh_available)]
            /\ solver_vars' = solver_vars \o ConcatOver(TAVars, 0, NumTAs)
            /\ solver_constraints' =
                 solver_constraints \cup UNION {TAConstraints(ta) : ta \in TAs}
            /\ pc' = "demand"
            /\ UNCHANGED <<recitation_assignments_by_ta, buddy_vars,
                           oh_utility_obj, recitation_utility_obj_clauses,
                           total_obj>>
  /\ UNCHANGED <<inputs, index, solved, decoded>>

(***************************************************************************)
(* Demand met at each block (cell 3a3faca1).                               *)
(***************************************************************************)
\* oh_blocks[block_id]: the TAs holding a variable for the block, in the
\* order the per-TA loop inserted them
OhBlocks(blocks_by_ta, block_id) ==
  Ascending({ta \in DOMAIN blocks_by_ta : block_id \in blocks_by_ta[ta]})

BlockSum(blocks_by_ta, block_id) ==
  LET tas == OhBlocks(blocks_by_ta, block_id)
  IN  SumVars([i \in DOMAIN tas |-> BlockVar(tas[i], block_id)])

DemandConstraint(blocks_by_ta, block_id) ==
  LET demand_lb == oh_demand_by_block_id[block_id][1]
      demand_ub == oh_demand_by_block_id[block_id][2]
      total == BlockSum(blocks_by_ta, block_id)
  IN  \* demand_lb <= solver.Sum(ta_vars.values()) <= demand_ub
      PyAnd(GeNum(total, demand_lb), LeNum(total, demand_ub))

DemandConstraints ==
  /\ pc = "demand"
  /\ solver_constraints' = solver_constraints \cup
       {DemandConstraint(oh_blocks_by_ta, block_id) :
          block_id \in DOMAIN oh_block_id_to_block}
  /\ pc' = "recitation"
  /\ UNCHANGED <<inputs, index, solved, decoded, solver_vars, oh_blocks_by_ta,
                 oh_shifts_by_ta, recitation_assignments_by_ta, buddy_vars,
                 oh_utility_obj, recitation_utility_obj_clauses, total_obj>>

(***************************************************************************)
(* Recitation variables and the per-TA cap (cell 556fde22).                *)
(***************************************************************************)
\* np.where(availability == 1)[0]
RowRecitations(availability) ==
  {recitation_id \in Range0(Len(recitations)) : recitation_id \in availability}

RecitationVarsOf(ta_idx, ids) ==
  LET s == Ascending(ids)
  IN  [i \in DOMAIN s |-> RecitationVar(ta_idx, s[i])]

\* RecitationThreshold without the willingness tiers
RecitationThresholdFlat(recitation_pref) == max_recitations_per_ta

RecitationThreshold(recitation_pref) ==
  IF recitation_pref >= high_pref_threshold THEN max_recitations_per_ta ELSE 1

RecitationCap(ta_idx) ==
  LeNum(SumVars(RecitationVarsOf(ta_idx,
          RowRecitations(availability_df[ta_idx].recitation_available))),
        RecitationThreshold(availability_df[ta_idx].recitation_pref))

TARecitationVars(ta_idx) ==
  RecitationVarsOf(ta_idx,
                   RowRecitations(availability_df[ta_idx].recitation_available))

RecitationVariables ==
  /\ pc = "recitation"
  /\ recitation_assignments_by_ta' =
       [ta \in TAs |-> RowRecitations(availability_df[ta].recitation_available)]
  /\ solver_vars' = solver_vars \o ConcatOver(TARecitationVars, 0, NumTAs)
  /\ solver_constraints' = solver_constraints \cup {RecitationCap(ta) : ta \in TAs}
  /\ pc' = "leaders"
  /\ UNCHANGED <<inputs, index, solved, decoded, oh_blocks_by_ta, oh_shifts_by_ta,
                 buddy_vars, oh_utility_obj, recitation_utility_obj_clauses,
                 total_obj>>

(***************************************************************************)
(* Each recitation has between 1 and 2 leaders (cell d39e9405).            *)
(***************************************************************************)
\* recitation_assignments[recitation_id]
RecitationAssignments(recs_by_ta, recitation_id) ==
  Ascending({ta \in DOMAIN recs_by_ta : recitation_id \in recs_by_ta[ta]})

LeaderSum(recs_by_ta, recitation_id) ==
  LET tas == RecitationAssignments(recs_by_ta, recitation_id)
  IN  SumVars([i \in DOMAIN tas |-> RecitationVar(tas[i], recitation_id)])

LeaderConstraint(recs_by_ta, recitation_id) ==
  \* 1 <= solver.Sum(ta_vars.values()) <= 2
  PyAnd(GeNum(LeaderSum(recs_by_ta, recitation_id), 1),
        LeNum(LeaderSum(recs_by_ta, recitation_id), 2))

RecitationLeaders ==
  /\ pc = "leaders"
  /\ solver_constraints' = solver_constraints \cup
       {LeaderConstraint(recitation_assignments_by_ta, recitation_id) :
          recitation_id \in Range0(Len(recitations))}
  /\ pc' = "overlap"
  /\ UNCHANGED <<inputs, index, solved, decoded, solver_vars, oh_blocks_by_ta,
                 oh_shifts_by_ta, recitation_assignments_by_ta, buddy_vars,
                 oh_utility_obj, recitation_utility_obj_clauses, total_obj>>

(***************************************************************************)
(* Recitation / office-hour overlap (cell fe39c34a).                       *)
(***************************************************************************)
\* Overlaps on recitation times truncated to whole hours
OverlapsWholeHours(block, recitation) ==
  /\ block.day = recitation.day
  /\ (IF recitation.start \div 60 >= block.start
        THEN recitation.start \div 60 ELSE block.start)
       < (IF recitation.end \div 60 <= block.end
            THEN recitation.end \div 60 ELSE block.end)

\* block.day == recitation.day and
\* max(recitation.start, block.start) < min(recitation.end, block.end)
Overlaps(block, recitation) ==
  /\ block.day = recitation.day
  /\ Max2(recitation.start, 60 * block.start)
       < Min2(recitation.end, 60 * block.end)

OverlapConstraintSet ==
  {LeNum(Plus(VarExpr(BlockVar(q[3], q[2])), VarExpr(RecitationVar(q[3], q[1]))), 1) :
     q \in {t \in Range0(Len(recitations)) \X (DOMAIN oh_block_id_to_block) \X TAs :
              /\ Overlaps(oh_block_id_to_block[t[2]], recitations[t[1] + 1])
              /\ t[2] \in oh_blocks_by_ta[t[3]]
              /\ t[1] \in recitation_assignments_by_ta[t[3]]}}

OverlapConstraints ==
  /\ pc = "overlap"
  /\ solver_constraints' = solver_constraints \cup OverlapConstraintSet
  /\ pc' = "commitment"
  /\ UNCHANGED <<inputs, index, solved, decoded, solver_vars, oh_blocks_by_ta,
                 oh_shifts_by_ta, recitation_assignments_by_ta, buddy_vars,
                 oh_utility_obj, recitation_utility_obj_clauses, total_obj>>

(***************************************************************************)
(* Per-TA commitment (cell 236780a4).                                      *)
(***************************************************************************)
CommitmentSum(ta_idx) ==
  LET b == Ascending(oh_blocks_by_ta[ta_idx])
      r == Ascending(recitation_assignments_by_ta[ta_idx])
  IN  Plus(SumVars([i \in DOMAIN b |-> BlockVar(ta_idx, b[i])]),
           Times(recitation_time_commitment,
                 SumVars([i \in DOMAIN r |-> RecitationVar(ta_idx, r[i])])))

\* CommitmentOf with the grading hours not taken off the budget and no
\* lower bound
CommitmentOfNoGrading(ta_idx) ==
  {[terms |-> CommitmentSum(ta_idx).terms, sense |-> "le",
    rhs |-> availability_df[ta_idx].max_hours]}

CommitmentOf(ta_idx) ==
  LET row == availability_df[ta_idx]
  IN  {LeNum(CommitmentSum(ta_idx), row.max_hours - grading_time_commitment)}
        \cup (IF row.min_hours > grading_time_commitment
                THEN {GeNum(CommitmentSum(ta_idx),
                            row.min_hours - grading_time_commitment)}
                ELSE {})

CommitmentConstraints ==
  /\ pc = "commitment"
  /\ solver_constraints' = solver_constraints \cup
       UNION {CommitmentOf(ta) : ta \in TAs}
  /\ pc' = "minimum"
  /\ UNCHANGED <<inputs, index, solved, decoded, solver_vars, oh_blocks_by_ta,
                 oh_shifts_by_ta, recitation_assignments_by_ta, buddy_vars,
                 oh_utility_obj, recitation_utility_obj_clauses, total_obj>>

(***************************************************************************)
(* Global minimum of TA-hours (cell 679afe5e).                             *)
(***************************************************************************)
BlockVarsOfBlock(block_id) ==
  LET tas == OhBlocks(oh_blocks_by_ta, block_id)
  IN  [i \in DOMAIN tas |-> BlockVar(tas[i], block_id)]

AllBlockVars ==
  ConcatOver(BlockVarsOfBlock, 0, Cardinality(DOMAIN oh_block_id_to_block))

\* GlobalMinimum with the comparison turned round
GlobalMinimumReversed ==
  [terms |-> SumVars(AllBlockVars).terms, sense |-> "le", rhs |-> min_total_ta_hours]

GlobalMinimum == GeNum(SumVars(AllBlockVars), min_total_ta_hours)

MinimumCommitment ==
  /\ pc = "minimum"
  /\ solver_constraints' = solver_constraints \cup {GlobalMinimum}
  /\ pc' = "oh_utility"
  /\ UNCHANGED <<inputs, index, solved, decoded, solver_vars, oh_blocks_by_ta,
                 oh_shifts_by_ta, recitation_assignments_by_ta, buddy_vars,
                 oh_utility_obj, recitation_utility_obj_clauses, total_obj>>

(***************************************************************************)
(* Office-hours utility (cell 5da7c875).                                   *)
(***************************************************************************)
\* OhWeight without the preferred weight
OhWeightFlat(row, block_id) == 1

OhWeight(row, block_id) ==
  IF block_id \in row.oh_pref_available THEN oh_preferred_weight ELSE 1

TAOhClauses(ta_idx) ==
  LET row == availability_df[ta_idx]
      ids == Ascending(RowBlocks(row.oh_available))
  IN  [i \in DOMAIN ids |-> Term(OhWeight(row, ids[i]), BlockVar(ta_idx, ids[i]))]

OfficeHoursUtility ==
  /\ pc = "oh_utility"
  /\ oh_utility_obj' =
       [terms |-> ConcatOver(TAOhClauses, 0, NumTAs), offset |-> 0]
  /\ pc' = "recitation_utility"
  /\ UNCHANGED <<inputs, index, solved, decoded, solver_vars, solver_constraints,
                 oh_blocks_by_ta, oh_shifts_by_ta, recitation_assignments_by_ta,
                 buddy_vars, recitation_utility_obj_clauses, total_obj>>

(***************************************************************************)
(* Recitation utility, base (cell a2465ca5).                               *)
(***************************************************************************)
RECURSIVE Pow(_, _)
Pow(b, e) == IF e = 0 THEN 1 ELSE b * Pow(b, e - 1)

\* Python's round() of the fraction num / den: to the nearest integer, a
\* tie to the even one
Round(num, den) ==
  LET q == num \div den
      r == num % den
  IN  IF 2 * r < den THEN q
      ELSE IF 2 * r > den THEN q + 1
      ELSE IF q % 2 = 0 THEN q ELSE q + 1

\* int(round(returning_mult * recitation_pref_shape**recitation_pref))
TAUtility(row) ==
  LET returning_mult_tenths ==
        IF row.returning THEN recitation_returning_ta_multiplier_tenths ELSE 10
  IN  Round(returning_mult_tenths * Pow(recitation_pref_shape_tenths, row.recitation_pref),
            10 * Pow(10, row.recitation_pref))

TARecitationClauses(ta_idx) ==
  LET ids == Ascending(recitation_assignments_by_ta[ta_idx])
  IN  [i \in DOMAIN ids |->
         Term(TAUtility(availability_df[ta_idx]), RecitationVar(ta_idx, ids[i]))]

RecitationUtility ==
  /\ pc = "recitation_utility"
  /\ recitation_utility_obj_clauses' =
       [terms |-> ConcatOver(TARecitationClauses, 0, NumTAs), offset |-> 0]
  /\ pc' = "buddy_utility"
  /\ UNCHANGED <<inputs, index, solved, decoded, solver_vars, solver_constraints,
                 oh_blocks_by_ta, oh_shifts_by_ta, recitation_assignments_by_ta,
                 buddy_vars, oh_utility_obj, total_obj>>

(***************************************************************************)
(* Recitation utility, buddies (cell a45bcaa9).                            *)
(***************************************************************************)
SharedRecitations(pair) ==
  recitation_assignments_by_ta[pair[1]] \cap recitation_assignments_by_ta[pair[2]]

\* BuddyBounds that never lets the buddy variable be 1
BuddyBoundsNever(requester_id, requested_id, shared_recitation) ==
  LeNum(VarExpr(BuddyVar(requester_id, requested_id, shared_recitation)), 0)

BuddyBounds(requester_id, requested_id, shared_recitation) ==
  LET requester_var == VarExpr(RecitationVar(requester_id, shared_recitation))
      requested_var == VarExpr(RecitationVar(requested_id, shared_recitation))
      buddy_var == VarExpr(BuddyVar(requester_id, requested_id, shared_recitation))
  IN  \* requester_var + requester_var - 1 <= buddy_var
      \*                                   <= requester_var + requester_var
      PyAnd(LeExpr(Plus(Plus(requester_var, requester_var), ConstExpr(-1)), buddy_var),
            LeExpr(buddy_var, Plus(requester_var, requester_var)))

PairBuddyVars(i) ==
  LET s == Ascending(SharedRecitations(buddies[i + 1]))
  IN  [k \in DOMAIN s |-> BuddyVar(buddies[i + 1][1], buddies[i + 1][2], s[k])]

AllBuddyVars == ConcatOver(PairBuddyVars, 0, Len(buddies))

BuddyUtility ==
  /\ pc = "buddy_utility"
  /\ buddy_vars' = SeqRange(AllBuddyVars)
  /\ solver_vars' = solver_vars \o AllBuddyVars
  /\ solver_constraints' = solver_constraints \cup
       {BuddyBounds(v.ta, v.aux, v.id) : v \in SeqRange(AllBuddyVars)}
  /\ recitation_utility_obj_clauses' =
       Plus(recitation_utility_obj_clauses,
            Times(recitation_one_way_buddy_weight, SumVars(AllBuddyVars)))
  /\ pc' = "objective"
  /\ UNCHANGED <<inputs, index, solved, decoded, oh_blocks_by_ta, oh_shifts_by_ta,
                 recitation_assignments_by_ta, oh_utility_obj, total_obj>>

(***************************************************************************)
(* Total objective (cells 16cb32b1, 8e3bf9a7).                             *)
(***************************************************************************)
TotalObjective ==
  /\ pc = "objective"
  /\ total_obj' = Plus(oh_utility_obj, Times(alpha, recitation_utility_obj_clauses))
  /\ pc' = "solve"
  /\ UNCHANGED <<inputs, index, solved, decoded, solver_vars, solver_constraints,
                 oh_blocks_by_ta, oh_shifts_by_ta, recitation_assignments_by_ta,
                 buddy_vars, oh_utility_obj, recitation_utility_obj_clauses>>

(***************************************************************************)
(* The solver (cell 7c966c55): solver.Maximize(total_obj); solver.Solve(). *)
(* SCIP run without limits ends with an optimal assignment of the 0/1      *)
(* variables, any one of them, or reports the model infeasible.            *)
(***************************************************************************)
\* --- the search: variables are numbered by their position in the search
\* order, and a partial assignment is the tuple of the values of the first
\* Len(a) of them.

\* the largest of a non-empty set of integers
Maximum(S) == CHOOSE m \in S : \A n \in S : m >= n

\* the order the search branches in: TA by TA, a TA's shift variables before
\* its block and recitation variables, the buddy variables last.  The set
\* of assignments found does not depend on it.
OfKind(variables, kind, ta) ==
  SelectSeq(variables, LAMBDA v : v.kind = kind /\ v.ta = ta)

SearchOrder(variables) ==
  LET n == IF variables = <<>> THEN 0
           ELSE 1 + Maximum({variables[i].ta : i \in DOMAIN variables})
      OfTA(ta) == OfKind(variables, "shift", ta) \o OfKind(variables, "block", ta)
                    \o OfKind(variables, "recitation", ta)
  IN  ConcatOver(OfTA, 0, n) \o SelectSeq(variables, LAMBDA v : v.kind = "buddy")

Position(order, v) == CHOOSE i \in DOMAIN order : order[i] = v

RECURSIVE IndexTerms(_, _, _)
\* the terms from number k on, each with the position of its variable
IndexTerms(order, terms, k) ==
  IF k > Len(terms) THEN <<>>
  ELSE <<[c |-> terms[k].c, p |-> Position(order, terms[k].v)]>>
         \o IndexTerms(order, terms, k + 1)

RECURSIVE IndexConstraints(_, _)
IndexConstraints(order, cons) ==
  IF cons = {} THEN <<>>
  ELSE LET c == CHOOSE x \in cons : TRUE
       IN  <<[terms |-> IndexTerms(order, c.terms, 1), sense |-> c.sense,
              rhs |-> c.rhs]>> \o IndexConstraints(order, cons \ {c})

\* smallest and largest value the terms from number k on can still take
\* under the partial assignment a
RECURSIVE Low(_, _, _)
Low(terms, a, k) ==
  IF k > Len(terms) THEN 0
  ELSE (IF terms[k].p <= Len(a) THEN terms[k].c * a[terms[k].p]
        ELSE Min2(terms[k].c, 0)) + Low(terms, a, k + 1)

RECURSIVE High(_, _, _)
High(terms, a, k) ==
  IF k > Len(terms) THEN 0
  ELSE (IF terms[k].p <= Len(a) THEN terms[k].c * a[terms[k].p]
        ELSE Max2(terms[k].c, 0)) + High(terms, a, k + 1)

\* the constraint can still be met by some completion of a; for a total
\* assignment: the constraint holds
Satisfiable(c, a) ==
  /\ c.sense \in {"le", "eq"} => Low(c.terms, a, 1) <= c.rhs
  /\ c.sense \in {"ge", "eq"} => High(c.terms, a, 1) >= c.rhs

AllSatisfiable(cs, a) == \A k \in DOMAIN cs : Satisfiable(cs[k], a)

Mentions(c, p) == \E k \in DOMAIN c.terms : c.terms[k].p = p

RECURSIVE ByPosition(_, _, _)
\* for each position from p on, the constraints that mention it
ByPosition(indexed, p, n) ==
  IF p > n THEN <<>>
  ELSE <<SelectSeq(indexed, LAMBDA c : Mentions(c, p))>>
         \o ByPosition(indexed, p + 1, n)

RECURSIVE Completions(_, _, _)
\* the total assignments extending a that meet every constraint, listed
Completions(n, by_position, a) ==
  IF Len(a) = n THEN <<a>>
  ELSE (IF AllSatisfiable(by_position[Len(a) + 1], Append(a, 0))
          THEN Completions(n, by_position, Append(a, 0)) ELSE <<>>)
       \o
       (IF AllSatisfiable(by_position[Len(a) + 1], Append(a, 1))
          THEN Completions(n, by_position, Append(a, 1)) ELSE <<>>)

\* the feasible assignments, as tuples over the search order
FeasibleTuples(order, cons) ==
  LET indexed == IndexConstraints(order, cons)
  IN  IF AllSatisfiable(indexed, <<>>)
        THEN SeqRange(Completions(Len(order),
                                  ByPosition(indexed, 1, Len(order)), <<>>))
        ELSE {}

OptimalTuples(feasible, objective_terms) ==
  IF feasible = {} THEN {}
  ELSE LET best == Maximum({Low(objective_terms, a, 1) : a \in feasible})
       IN  {a \in feasible : Low(objective_terms, a, 1) = best}

\* the optimal assignments of the model, each a function variable -> value
OptimalAssignments(variables, cons, objective) ==
  LET order == SearchOrder(variables)
      optimal == OptimalTuples(FeasibleTuples(order, cons),
                               IndexTerms(order, objective.terms, 1))
  IN  {[v \in SeqRange(variables) |-> a[Position(order, v)]] : a \in optimal}

Solve ==
  /\ pc = "solve"
  /\ \E optimal \in {OptimalAssignments(solver_vars, solver_constraints, total_obj)} :
       IF optimal = {}
         THEN /\ status' = "INFEASIBLE"
              \* solution_value() of a variable when no solution exists
              /\ solution' = [v \in SeqRange(solver_vars) |-> 0]
         ELSE /\ status' = "OPTIMAL"
              /\ solution' \in optimal
  /\ pc' = "decode_oh"
  /\ UNCHANGED <<inputs, index, built, decoded>>

(***************************************************************************)
(* Decoders (cells 8ece5e08 and aaf8fc9f): a record per variable whose     *)
(* solution_value() exceeds 0.5.                                           *)
(***************************************************************************)
Selected(v) == 2 * solution[v] > 1

DecodeOfficeHours ==
  /\ pc = "decode_oh"
  /\ oh_solution' =
       {q \in TAs \X (DOMAIN oh_block_id_to_block) :
          /\ q[2] \in oh_blocks_by_ta[q[1]]
          /\ Selected(BlockVar(q[1], q[2]))}
  /\ pc' = "decode_recitations"
  /\ UNCHANGED <<inputs, index, built, solved, recitation_solution>>

DecodeRecitations ==
  /\ pc = "decode_recitations"
  /\ recitation_solution' =
       {q \in Range0(Len(recitations)) \X TAs :
          /\ q[1] \in recitation_assignments_by_ta[q[2]]
          /\ Selected(RecitationVar(q[2], q[1]))}
  /\ pc' = "done"
  /\ UNCHANGED <<inputs, index, built, solved, oh_solution>>

(***************************************************************************)
(* Inputs explored.  The notebook reads its roster from CSV files and has  *)
(* its coverage windows, recitation list and minimum written in cells;     *)
(* here they range over small families that keep the shapes of the         *)
(* originals: windows with demand (0,1), (1,1), (1,2), (2,2), late hours,  *)
(* weekend days, two windows on one day, recitations at fractional hours   *)
(* that overlap blocks.                                                    *)
(***************************************************************************)
Window(day, start, end, lb, ub) ==
  [day |-> day, start |-> start, end |-> end, demand |-> <<lb, ub>>]

\* three Thursday blocks in a row
ThursdayWindows == <<Window("Thu", 10, 12, 0, 1)>>
\* two Thursday blocks: 11-12 is overlapped by the 10:30 recitation and ends
\* as the 12:00 recitation starts, 12-13 is overlapped by the 12:00 one
RecitationWindows == <<Window("Thu", 11, 12, 0, 1)>>
\* blocks that start at or after the late hour
LateWindows == <<Window("Mon", 20, 22, 1, 2)>>
\* three blocks in a row that all start at or after the late hour
NightWindows == <<Window("Mon", 21, 23, 0, 1)>>
\* one block on each of four weekdays, more days than max_oh_shifts_per_ta
WeekWindows == <<Window("Mon", 10, 10, 1, 1), Window("Tue", 10, 10, 0, 1),
                 Window("Wed", 12, 12, 1, 2), Window("Fri", 10, 10, 2, 2)>>
\* one block on a weekday and on each weekend day
WeekendWindows == <<Window("Fri", 14, 14, 0, 1), Window("Sat", 12, 12, 1, 1),
                    Window("Sun", 12, 12, 1, 1)>>
\* two windows on one day with an uncovered hour between them
GapWindows == <<Window("Mon", 10, 10, 0, 1), Window("Mon", 12, 13, 0, 1)>>
\* two windows of one day, the later one listed first
ReversedWindows == <<Window("Tue", 12, 12, 0, 1), Window("Tue", 10, 11, 0, 1)>>
\* two days with an uncovered hour each and a third day: eight blocks
DoubleGapWindows ==
  <<Window("Mon", 10, 10, 0, 1), Window("Mon", 12, 13, 0, 1),
    Window("Tue", 10, 10, 0, 1), Window("Tue", 12, 13, 0, 1),
    Window("Wed", 10, 11, 0, 1)>>
\* two runs of maximum shift length
RunWindows == <<Window("Mon", 10, 12, 1, 1), Window("Tue", 10, 12, 1, 1)>>

\* the configurations of at most three blocks, and the larger ones
WindowConfigs == {ThursdayWindows, LateWindows, NightWindows, WeekendWindows,
                  GapWindows, ReversedWindows}
LongWindowConfigs == {WeekWindows, RunWindows, DoubleGapWindows}

\* from recitations_raw (cell ad86d874): Th 10:30AM - 11:45AM,
\* Th 12:00PM - 1:15PM, Fr 10:30AM - 11:45AM, in minutes
RecitationList == <<Recitation("Thu", 630, 705), Recitation("Thu", 720, 795),
                    Recitation("Fri", 630, 705)>>

NumBlocks(windows) == Len(BlockSeq(windows))

\* the block ids of window number k
WindowIds(windows, k) ==
  LET before == NumBlocks(SubSeq(windows, 1, k - 1))
  IN  before .. (before + Len(WindowBlocks(windows[k])) - 1)

\* availability bitsets: every subset of a small block universe, every
\* union of whole windows of a larger one, nothing or everything of one with
\* more than four windows
AvailabilityChoices(windows) ==
  IF NumBlocks(windows) <= 3
    THEN SUBSET Range0(NumBlocks(windows))
    ELSE IF Len(windows) <= 4
      THEN {UNION {WindowIds(windows, k) : k \in K} : K \in SUBSET DOMAIN windows}
      ELSE {{}, Range0(NumBlocks(windows))}

Row(min_hours, max_hours, recitation_pref, returning, oh_available, oh_pref_available, recitation_available) ==
  [min_hours |-> min_hours, max_hours |-> max_hours,
   recitation_pref |-> recitation_pref, returning |-> returning,
   oh_available |-> oh_available, oh_pref_available |-> oh_pref_available,
   recitation_available |-> recitation_available]

\* rows that differ in office-hour availability only
OfficeHourRows(windows) ==
  {Row(0, 12, 0, FALSE, a, {}, {}) : a \in AvailabilityChoices(windows)}

\* (willingness, returning, recitation availability)
RecitationChoices == {<<0, FALSE, {}>>, <<0, FALSE, {0}>>, <<2, FALSE, {0, 1}>>,
                      <<3, TRUE, {0}>>, <<4, TRUE, {0, 1, 2}>>}
\* (min_hours, max_hours)
HourChoices == {<<0, 12>>, <<3, 5>>}

\* rows available for every block that differ in recitation willingness and
\* availability, returning status and hour budget
RecitationRows(windows) ==
  {Row(h[1], h[2], r[1], r[2], Range0(NumBlocks(windows)), {}, r[3]) :
     <<h, r>> \in HourChoices \X RecitationChoices}

\* (oh_available, oh_pref_available) over the two blocks of
\* RecitationWindows: preferred within available, and preferred marks on
\* blocks that are not available
PreferenceChoices == {<<{0, 1}, {0}>>, <<{0, 1}, {0, 1}>>, <<{0}, {0, 1}>>,
                      <<{1}, {0}>>}

\* willing returning rows that differ in office-hour availability and
\* preference
PreferenceRows ==
  {Row(0, 12, 3, TRUE, c[1], c[2], {0}) : c \in PreferenceChoices}

\* the row of every TA after the free rows of a roster
ExtraRow(windows) ==
  Row(0, 12, 5, TRUE, {0}, {}, {0})

\* the rosters of up to MaxTAs rows: the first `free` rows range over
\* `rows`, every later row is `extra`
Rosters(rows, extra, free) ==
  UNION {{f \in [Range0(n) -> rows \cup {extra}] :
            \A i \in Range0(n) : IF i < free THEN f[i] \in rows ELSE f[i] = extra} :
         n \in 0 .. MaxTAs}

BuddyChoices(n) ==
  IF n < 2 THEN {<<>>} ELSE {<<>>, <<<<0, 1>>>>, <<<<0, 1>>, <<1, 0>>>>}

\* office-hour family: the small window configurations, rows of
\* OfficeHourRows
InitOfficeHours ==
  /\ oh_demand_bounds \in WindowConfigs
  /\ availability_df \in Rosters(OfficeHourRows(oh_demand_bounds),
                                 ExtraRow(oh_demand_bounds), 2)
  /\ buddies = <<>>

\* long-week family: the configurations of more than three blocks, the
\* first row over the availability choices
InitLongWeek ==
  /\ oh_demand_bounds \in LongWindowConfigs
  /\ availability_df \in Rosters(OfficeHourRows(oh_demand_bounds),
                                 ExtraRow(oh_demand_bounds), 1)
  /\ buddies = <<>>

\* recitation family: the windows next to the recitations, rows of
\* RecitationRows
InitRecitations ==
  /\ oh_demand_bounds = RecitationWindows
  /\ availability_df \in Rosters(RecitationRows(oh_demand_bounds),
                                 ExtraRow(oh_demand_bounds), 2)
  /\ buddies \in BuddyChoices(Cardinality(DOMAIN availability_df))

\* preference family: the windows next to the recitations, rows of
\* PreferenceRows
InitPreferences ==
  /\ oh_demand_bounds = RecitationWindows
  /\ availability_df \in Rosters(PreferenceRows, ExtraRow(oh_demand_bounds), 2)
  /\ buddies \in BuddyChoices(Cardinality(DOMAIN availability_df))

Init ==
  /\ InitOfficeHours \/ InitLongWeek \/ InitRecitations \/ InitPreferences
  /\ recitations = RecitationList
  /\ min_total_ta_hours \in 0 .. MaxMinTotal
  /\ one_shift_per_day \in BOOLEAN
  /\ oh_block_id_to_block = <<>>
  /\ oh_demand_by_block_id = <<>>
  /\ solver_vars = <<>>
  /\ solver_constraints = {}
  /\ oh_blocks_by_ta = <<>>
  /\ oh_shifts_by_ta = <<>>
  /\ recitation_assignments_by_ta = <<>>
  /\ buddy_vars = {}
  /\ oh_utility_obj = ConstExpr(0)
  /\ recitation_utility_obj_clauses = ConstExpr(0)
  /\ total_obj = ConstExpr(0)
  /\ status = "NOT_SOLVED"
  /\ solution = <<>>
  /\ oh_solution = {}
  /\ recitation_solution = {}
  /\ pc = "index"

Next ==
  \/ TimeBlockIndex
  \/ Validate
  \/ OfficeHourVariables
  \/ DemandConstraints
  \/ RecitationVariables
  \/ RecitationLeaders
  \/ OverlapConstraints
  \/ CommitmentConstraints
  \/ MinimumCommitment
  \/ OfficeHoursUtility
  \/ RecitationUtility
  \/ BuddyUtility
  \/ TotalObjective
  \/ Solve
  \/ DecodeOfficeHours
  \/ DecodeRecitations

Spec == Init /\ [][Next]_vars

(***************************************************************************)
(* Properties.                                                             *)
(***************************************************************************)
\* the office-hour cell has run to its end
OfficeHoursBuilt ==
  pc \notin {"index", "validate", "oh", "AssertionError", "NotImplementedError"}

\* the solver returned an assignment
SolverReturned == status = "OPTIMAL"

CreatedVars == SeqRange(solver_vars)

\* the blocks, shifts and recitations the returned assignment selects for a TA
BlocksOf(ta) == {b \in DOMAIN oh_block_id_to_block :
                   BlockVar(ta, b) \in CreatedVars /\ solution[BlockVar(ta, b)] = 1}
ShiftsOf(ta) == {k \in DOMAIN oh_shifts_by_ta[ta] :
                   solution[oh_shifts_by_ta[ta][k].var] = 1}
RecitationsOf(ta) == {r \in Range0(Len(recitations)) :
                        RecitationVar(ta, r) \in CreatedVars
                          /\ solution[RecitationVar(ta, r)] = 1}
\* the TAs the returned assignment puts on a block, leading a recitation
TAsOn(b) == {ta \in TAs : b \in BlocksOf(ta)}
LeadersOf(r) == {ta \in TAs : r \in RecitationsOf(ta)}

\* C1: once the office-hour cell has run, a block variable exists for a TA
\* and a block exactly when the TA's availability marks the block, and no
\* decoded office-hour record names a block its TA is not available for.
C1_VariableIffAvailable ==
  /\ OfficeHoursBuilt =>
       \A ta \in TAs : \A b \in DOMAIN oh_block_id_to_block :
         /\ BlockVar(ta, b) \in CreatedVars <=> b \in availability_df[ta].oh_available
         /\ b \in oh_blocks_by_ta[ta] <=> b \in availability_df[ta].oh_available
  /\ \A q \in oh_solution : q[2] \in availability_df[q[1]].oh_available

\* a decoded schedule with a record for a TA who is unavailable for another block
C1_Witness ==
  /\ pc = "done"
  /\ \E q \in oh_solution :
       \E b \in DOMAIN oh_block_id_to_block : b \notin availability_df[q[1]].oh_available

\* C2: in every returned assignment the number of TAs on a block is at
\* least the block's demand lower bound and at most its upper bound.
C2_DemandWithinBounds ==
  SolverReturned =>
    \A b \in DOMAIN oh_block_id_to_block :
      /\ oh_demand_by_block_id[b][1] <= Cardinality(TAsOn(b))
      /\ Cardinality(TAsOn(b)) <= oh_demand_by_block_id[b][2]

\* C3: in every returned assignment every recitation has at least 1 and at
\* most 2 leaders.
C3_LeadersWithinBounds ==
  SolverReturned =>
    \A r \in Range0(Len(recitations)) :
      /\ 1 <= Cardinality(LeadersOf(r))
      /\ Cardinality(LeadersOf(r)) <= 2

\* C4: in every returned assignment every selected block of a TA lies in a
\* selected shift of that TA, and a block variable that no generated shift
\* covers is not selected.
C4_BlocksInSelectedShifts ==
  SolverReturned =>
    \A ta \in TAs : \A b \in BlocksOf(ta) :
      /\ \E k \in ShiftsOf(ta) : b \in ShiftBlocks(oh_shifts_by_ta[ta][k])
      /\ \E k \in DOMAIN oh_shifts_by_ta[ta] : b \in ShiftBlocks(oh_shifts_by_ta[ta][k])

\* a returned assignment for a TA who holds a block while another of the
\* TA's block variables is covered by no shift
C4_Witness ==
  /\ SolverReturned
  /\ \E ta \in TAs :
       /\ BlocksOf(ta) # {}
       /\ \E b \in oh_blocks_by_ta[ta] :
            \A k \in DOMAIN oh_shifts_by_ta[ta] : b \notin ShiftBlocks(oh_shifts_by_ta[ta][k])

C6_RecitationCaps ==
  SolverReturned =>
    \A ta \in TAs :
      LET pref == availability_df[ta].recitation_pref
          led == Cardinality(RecitationsOf(ta))
      IN  /\ pref = 0 => led = 0
          /\ pref \in 1 .. 3 => led <= 1
          /\ pref >= 4 => led <= max_recitations_per_ta

\* a TA of willingness 1 to 3 with two recitations to choose from leads one,
\* while a TA of willingness 4 leads two
C6_Witness ==
  /\ SolverReturned
  /\ \E ta \in TAs :
       /\ availability_df[ta].recitation_pref \in 1 .. 3
       /\ Cardinality(availability_df[ta].recitation_available) > 1
       /\ Cardinality(RecitationsOf(ta)) = 1
  /\ \E ta \in TAs :
       /\ availability_df[ta].recitation_pref >= 4
       /\ Cardinality(RecitationsOf(ta)) = max_recitations_per_ta

\* C7: in every returned assignment no TA holds a block and leads a
\* recitation on the same day whose half-open time ranges intersect.
C7_NoOverlap ==
  SolverReturned =>
    \A ta \in TAs : \A b \in BlocksOf(ta) : \A r \in RecitationsOf(ta) :
      LET block == oh_block_id_to_block[b]
          recitation == recitations[r + 1]
      IN  ~(/\ block.day = recitation.day
            /\ 60 * block.start < recitation.end
            /\ recitation.start < 60 * block.end)

\* a TA holds the block that ends at 12:00 and leads the recitation that
\* starts at 12:00, and has a variable for a recitation at fractional hours
\* that overlaps the block
C7_Witness ==
  /\ SolverReturned
  /\ \E ta \in TAs : \E b \in BlocksOf(ta) : \E r \in RecitationsOf(ta) :
       /\ oh_block_id_to_block[b].day = recitations[r + 1].day
       /\ 60 * oh_block_id_to_block[b].end = recitations[r + 1].start
       /\ \E r2 \in recitation_assignments_by_ta[ta] :
            /\ oh_block_id_to_block[b].day = recitations[r2 + 1].day
            /\ 60 * oh_block_id_to_block[b].start < recitations[r2 + 1].end
            /\ recitations[r2 + 1].start < 60 * oh_block_id_to_block[b].end
            /\ recitations[r2 + 1].start % 60 # 0

\* the commitment cell has run
CommitmentBuilt ==
  pc \in {"minimum", "oh_utility", "recitation_utility", "buddy_utility",
          "objective", "solve", "decode_oh", "decode_recitations", "done"}

\* a TA's weekly hours under the returned assignment
Commitment(ta) ==
  grading_time_commitment + Cardinality(BlocksOf(ta))
    + recitation_time_commitment * Cardinality(RecitationsOf(ta))

\* C8: in every returned assignment a TA's grading hours plus blocks plus
\* recitation_time_commitment per recitation are at most max_hours, and at
\* least min_hours when min_hours > grading_time_commitment; for a TA with
\* min_hours <= grading_time_commitment the model holds no lower bound on
\* the TA's commitment sum.
C8_CommitmentWithinBudget ==
  /\ SolverReturned =>
       \A ta \in TAs :
         /\ Commitment(ta) <= availability_df[ta].max_hours
         /\ availability_df[ta].min_hours > grading_time_commitment
              => Commitment(ta) >= availability_df[ta].min_hours
  /\ CommitmentBuilt =>
       \A ta \in TAs :
         availability_df[ta].min_hours <= grading_time_commitment =>
           \A c \in solver_constraints :
             ~(c.sense = "ge" /\ c.terms = CommitmentSum(ta).terms
                 /\ c.terms # <<>> /\ c # GlobalMinimum)

\* a TA with min_hours > grading_time_commitment is given exactly max_hours
C8_Witness ==
  /\ SolverReturned
  /\ \E ta \in TAs :
       /\ availability_df[ta].min_hours > grading_time_commitment
       /\ Commitment(ta) = availability_df[ta].max_hours
       /\ RecitationsOf(ta) # {}
       /\ BlocksOf(ta) # {}

\* C9: in every returned assignment the number of selected (TA, block)
\* pairs is at least min_total_ta_hours.
C9_GlobalMinimumMet ==
  SolverReturned =>
    Cardinality({q \in TAs \X (DOMAIN oh_block_id_to_block) : q[2] \in BlocksOf(q[1])})
      >= min_total_ta_hours

\* an assignment returned under a positive minimum that selects exactly
\* that many pairs
C9_Witness ==
  /\ SolverReturned
  /\ min_total_ta_hours > 0
  /\ Cardinality({q \in TAs \X (DOMAIN oh_block_id_to_block) : q[2] \in BlocksOf(q[1])})
       = min_total_ta_hours

\* C10: in every returned assignment a buddy variable is 1 only when both
\* the requester and the requested TA lead the shared recitation.
C10_BuddyOnlyWhenBoth ==
  SolverReturned =>
    \A v \in buddy_vars :
      solution[v] = 1 =>
        /\ solution[RecitationVar(v.ta, v.id)] = 1
        /\ solution[RecitationVar(v.aux, v.id)] = 1

\* C11: when the solver reports the model infeasible the run ends in an
\* outcome of its own, not in the ordinary end of a run after the decoders,
\* and no office-hour or recitation record is emitted.
C11_InfeasibleIsDistinctOutcome ==
  status = "INFEASIBLE" =>
    /\ pc \notin {"decode_recitations", "done"}
    /\ oh_solution = {}
    /\ recitation_solution = {}

\* C12: when a TA's preferred bitset marks a block the TA's availability
\* bitset does not mark, the run stops at validation: no variable and no
\* constraint is ever created and the solver is never run.
C12_PreferredNotAvailableAborts ==
  (\E ta \in TAs : PreferredNotAvailable(availability_df[ta]) > 0) =>
    /\ pc \in {"index", "validate", "AssertionError"}
    /\ solver_vars = <<>>
    /\ solver_constraints = {}
    /\ status = "NOT_SOLVED"

\* C13: with one_shift_per_day = false the build stops with an error for
\* every roster, the empty one included: the run never gets past the
\* office-hour cell and the solver is never run.
C13_MultipleShiftsPerDayAborts ==
  ~one_shift_per_day =>
    /\ pc \in {"index", "validate", "oh", "AssertionError", "NotImplementedError"}
    /\ status = "NOT_SOLVED"

\* the value the returned assignment gives to the terms of an expression
\* that are buddy variables between TAs a and b for recitation r
RECURSIVE BuddyBonus(_, _, _, _)
BuddyBonus(terms, a, b, r) ==
  IF terms = <<>> THEN 0
  ELSE LET t == Head(terms)
           counted == /\ t.v.kind = "buddy"
                      /\ t.v.id = r
                      /\ {t.v.ta, t.v.aux} = {a, b}
       IN  (IF counted THEN t.c * solution[t.v] ELSE 0)
             + BuddyBonus(Tail(terms), a, b, r)

\* the pairs of TAs with a request in each direction
MutualBuddies ==
  {q \in TAs \X TAs :
     /\ q[1] < q[2]
     /\ \E i \in DOMAIN buddies : buddies[i] = <<q[1], q[2]>>
     /\ \E i \in DOMAIN buddies : buddies[i] = <<q[2], q[1]>>}

\* C14: when both directions of a buddy pair are requested and the returned
\* assignment has both TAs lead the same recitation, the recitation term of
\* the objective holds exactly 2 x recitation_one_way_buddy_weight of buddy
\* bonus for that recitation, and the objective alpha times that.
C14_MutualBuddyBonus ==
  SolverReturned =>
    \A q \in MutualBuddies :
      \A r \in RecitationsOf(q[1]) \cap RecitationsOf(q[2]) :
        /\ BuddyBonus(recitation_utility_obj_clauses.terms, q[1], q[2], r)
             = 2 * recitation_one_way_buddy_weight
        /\ BuddyBonus(total_obj.terms, q[1], q[2], r)
             = alpha * 2 * recitation_one_way_buddy_weight

\* a returned assignment in which two TAs who requested each other lead the
\* same recitation
C14_Witness ==
  /\ SolverReturned
  /\ \E q \in MutualBuddies : RecitationsOf(q[1]) \cap RecitationsOf(q[2]) # {}

\* the (first block id, number of blocks) of the shifts generated for a TA
GeneratedRuns(ta) ==
  {<<oh_shifts_by_ta[ta][k].first, oh_shifts_by_ta[ta][k].window + 1>> :
     k \in DOMAIN oh_shifts_by_ta[ta]}

\* the runs of 1 to max_oh_shift_length blocks with consecutive ids that lie
\* on one day and are all available to the TA, but for the runs of at most
\* `short` blocks that start at or after the late hour
ExpectedRuns(ta, short) ==
  {q \in (DOMAIN oh_block_id_to_block) \X (1 .. max_oh_shift_length) :
     /\ q[1] + q[2] - 1 \in DOMAIN oh_block_id_to_block
     /\ \A b \in q[1] .. (q[1] + q[2] - 1) :
          /\ b \in availability_df[ta].oh_available
          /\ oh_block_id_to_block[b].day = oh_block_id_to_block[q[1]].day
     /\ ~(q[2] <= short /\ oh_block_id_to_block[q[1]].start >= late_shift_hour)}

\* C15, as stated: the shift candidates generated for a TA are exactly the
\* runs of 1 to max_oh_shift_length available blocks on one day, but for the
\* one-block runs that start at or after the late hour; a two-block run that
\* starts at or after the late hour is generated.
C15_ExactRuns ==
  OfficeHoursBuilt => \A ta \in TAs : GeneratedRuns(ta) = ExpectedRuns(ta, 1)

\* C15, amended: the shift candidates generated for a TA are exactly the
\* runs of 1 to max_oh_shift_length available blocks on one day, but for the
\* runs of one block and of two blocks that start at or after the late hour,
\* each run generated once; a run that starts at or after the late hour is
\* generated only with three blocks or more.
C15_ExactRunsLateAtLeastThree ==
  OfficeHoursBuilt =>
    \A ta \in TAs :
      /\ GeneratedRuns(ta) = ExpectedRuns(ta, 2)
      /\ Len(oh_shifts_by_ta[ta]) = Cardinality(GeneratedRuns(ta))

\* one TA is available for two blocks in a row that start at or after the
\* late hour and gets no candidate that starts there, another gets a
\* three-block candidate that starts at or after the late hour
C15_Witness ==
  /\ OfficeHoursBuilt
  /\ \E ta \in TAs : \E b \in DOMAIN oh_block_id_to_block :
       /\ oh_block_id_to_block[b].start >= late_shift_hour
       /\ {b, b + 1} \subseteq availability_df[ta].oh_available
       /\ b + 2 \notin availability_df[ta].oh_available
       /\ \A q \in GeneratedRuns(ta) : q[1] # b
  /\ \E ta \in TAs : \E q \in GeneratedRuns(ta) :
       /\ oh_block_id_to_block[q[1]].start >= late_shift_hour
       /\ q[2] = max_oh_shift_length

\* the days of the block universe
BlockDays == {oh_block_id_to_block[b].day : b \in DOMAIN oh_block_id_to_block}

\* C16: in every returned assignment, for every TA and every day, either no
\* block of the day is assigned to the TA and no shift of the day is
\* selected, or exactly one shift of the day is selected and the blocks of
\* the day assigned to the TA are exactly the blocks of that shift.
C16_DayBlocksAreOneShift ==
  SolverReturned =>
    \A ta \in TAs : \A day \in BlockDays :
      LET assigned == {b \in BlocksOf(ta) : oh_block_id_to_block[b].day = day}
          chosen == {k \in ShiftsOf(ta) : oh_shifts_by_ta[ta][k].day = day}
      IN  \/ assigned = {} /\ chosen = {}
          \/ /\ Cardinality(chosen) = 1
             /\ \A k \in chosen : assigned = ShiftBlocks(oh_shifts_by_ta[ta][k])

\* a TA is assigned two adjacent blocks of a day through one selected
\* two-block shift while one-block candidates for both blocks exist
C16_Witness ==
  /\ SolverReturned
  /\ \E ta \in TAs : \E k \in ShiftsOf(ta) :
       /\ oh_shifts_by_ta[ta][k].window = 1
       /\ ShiftBlocks(oh_shifts_by_ta[ta][k]) \subseteq BlocksOf(ta)
       /\ \A b \in ShiftBlocks(oh_shifts_by_ta[ta][k]) :
            \E k1 \in DOMAIN oh_shifts_by_ta[ta] :
              ShiftBlocks(oh_shifts_by_ta[ta][k1]) = {b}

\* C17: every generated shift candidate is made of blocks of one day with
\* consecutive start hours, and its recorded end - start is its number of
\* blocks, between 1 and max_oh_shift_length; for coverage windows with an
\* uncovered gap within a day or listed in any order as for any other.
C17_ShiftsAreConsecutiveHours ==
  OfficeHoursBuilt =>
    \A ta \in TAs : \A k \in DOMAIN oh_shifts_by_ta[ta] :
      LET shift == oh_shifts_by_ta[ta][k]
      IN  /\ \A b \in ShiftBlocks(shift) : oh_block_id_to_block[b].day = shift.day
          /\ \A b \in ShiftBlocks(shift) \ {shift.first} :
               oh_block_id_to_block[b].start = oh_block_id_to_block[b - 1].start + 1
          /\ shift.end - shift.start = Cardinality(ShiftBlocks(shift))
          /\ shift.end - shift.start \in 1 .. max_oh_shift_length

\* the objective has been built and handed to the solver
ObjectiveSubmitted == pc \in {"decode_oh", "decode_recitations", "done"}

\* the sum of the coefficients an expression has for a variable
RECURSIVE Coefficient(_, _)
Coefficient(terms, v) ==
  IF terms = <<>> THEN 0
  ELSE (IF Head(terms).v = v THEN Head(terms).c ELSE 0) + Coefficient(Tail(terms), v)

\* the value of a sequence of terms under an assignment
RECURSIVE Value(_, _)
Value(terms, assignment) ==
  IF terms = <<>> THEN 0
  ELSE Head(terms).c * assignment[Head(terms).v] + Value(Tail(terms), assignment)

\* the assignment meets the constraint
Holds(c, assignment) ==
  /\ c.sense \in {"le", "eq"} => Value(c.terms, assignment) <= c.rhs
  /\ c.sense \in {"ge", "eq"} => Value(c.terms, assignment) >= c.rhs

\* the integer nearest to num / den
NearestInteger(num, den) ==
  CHOOSE u \in 0 .. (num \div den + 1) :
    /\ 2 * (u * den - num) <= den
    /\ 2 * (num - u * den) <= den

\* the integer utility of a recitation for a TA: the returning multiplier
\* (1.8 if returning, else 1) times 1.4 to the power of the willingness,
\* rounded
ExpectedUtility(row) ==
  NearestInteger(
    (IF row.returning THEN recitation_returning_ta_multiplier_tenths ELSE 10)
      * Pow(recitation_pref_shape_tenths, row.recitation_pref),
    10 * Pow(10, row.recitation_pref))

\* the coefficient the stated objective has for a variable
ExpectedCoefficient(v) ==
  IF v.kind = "block"
    THEN (IF v.id \in availability_df[v.ta].oh_pref_available
            THEN oh_preferred_weight ELSE 1)
  ELSE IF v.kind = "recitation" THEN alpha * ExpectedUtility(availability_df[v.ta])
  ELSE IF v.kind = "buddy" THEN alpha * recitation_one_way_buddy_weight
  ELSE 0

\* C18: the objective handed to the solver is a sum of integer multiples of
\* the variables, with coefficient w for a block variable (w =
\* oh_preferred_weight if the TA marked the block preferred, else 1), alpha
\* times the TA's rounded utility for a recitation variable and alpha times
\* recitation_one_way_buddy_weight for a buddy variable, and it is
\* maximized: no assignment that meets the constraints and differs from the
\* returned one in one variable has a larger value.
C18_ObjectiveAsStated ==
  /\ ObjectiveSubmitted =>
       /\ total_obj.offset = 0
       /\ \A k \in DOMAIN total_obj.terms :
            total_obj.terms[k].v \in CreatedVars /\ total_obj.terms[k].c \in Int
       /\ \A v \in CreatedVars :
            Coefficient(total_obj.terms, v) = ExpectedCoefficient(v)
  /\ pc = "decode_oh" /\ SolverReturned =>
       \A v \in CreatedVars :
         LET flipped == [solution EXCEPT ![v] = 1 - solution[v]]
         IN  (\A c \in solver_constraints : Holds(c, flipped))
               => Value(total_obj.terms, flipped) <= Value(total_obj.terms, solution)

\* an objective over a preferred and a non-preferred block variable, a
\* recitation variable of a returning TA and a buddy variable has been
\* maximized
C18_Witness ==
  /\ pc = "decode_oh"
  /\ SolverReturned
  /\ \E v \in CreatedVars :
       v.kind = "block" /\ v.id \in availability_df[v.ta].oh_pref_available
  /\ \E v \in CreatedVars :
       v.kind = "block" /\ v.id \notin availability_df[v.ta].oh_pref_available
  /\ \E v \in CreatedVars : v.kind = "recitation" /\ availability_df[v.ta].returning
  /\ buddy_vars # {}

\* C19: in every returned assignment a TA holds at most
\* max_oh_shift_length + (max_oh_shifts_per_ta - 1) * (max_oh_shift_length - 1)
\* blocks in the week, and at most max_oh_shift_length blocks on any one day.
C19_WeeklyBlockBound ==
  SolverReturned =>
    \A ta \in TAs :
      /\ Cardinality(BlocksOf(ta))
           <= max_oh_shift_length
                + (max_oh_shifts_per_ta - 1) * (max_oh_shift_length - 1)
      /\ \A day \in BlockDays :
           Cardinality({b \in BlocksOf(ta) : oh_block_id_to_block[b].day = day})
             <= max_oh_shift_length

=============================================================================
